---- MODULE Spec2Model ----
(***************************************************************************)
(* The image cycle of start_image_cycle.py: a persisted counter that walks *)
(* a ring of MAX_IMAGES numbered image files, the lookup of the latest     *)
(* image, and the generate / display loop of main(), together with the     *)
(* renderer script generate_picture_cycle.py that the loop runs.           *)
(***************************************************************************)
EXTENDS Integers, Sequences, FiniteSets, TLC

VARIABLES
    pc,           \* where main() is: boot, generate, render, display, a sleep, stopped, killed
    stage,        \* "bootstrap" up to the first sleep of main(), then "loop"
    slot,         \* generate_image's `counter`: what get_next_counter() last returned, 0 before
    returncode,   \* the exit code of the renderer last run by generate_image(), -1 before
    counterFile,  \* what image_dir/image_counter.json holds
    files,        \* the image files of image_dir, as paths, oldest write first
    imagePath,    \* display_image's `image_path`, NoPath before the first display
    viewerArg,    \* the path the last display_image() gave the viewer, NoPath if none
    viewerExit,   \* how the viewer run by the last display_image() ended: none, ok, failed
    lastPhase,    \* the last phase that ended in this run: none, generate, display
    slept,        \* seconds slept since the last phase ended
    bootCursor,   \* what load_counter() returned at line 117 of this run
    gens,         \* generate phases begun so far (stops counting above MaxGen)
    faults,       \* environment faults so far
    allocated,    \* the first HistCap values returned by get_next_counter()
    rendered,     \* the first HistCap slot numbers whose file the renderer wrote
    loaded,       \* what the last load_counter() call of this run returned, with its type
    lastSave,     \* how the last save_counter() call of this run ended, none before
    saveFaults    \* failed save_counter() calls so far

vars == <<pc, stage, slot, returncode, counterFile, files, imagePath, viewerArg,
          viewerExit, lastPhase, slept, bootCursor, gens, faults, allocated, rendered,
          loaded, lastSave, saveFaults>>

----------------------------------------------------------------------------
(* Program constants. *)

MAX_IMAGES == 50

SLEEP_AFTER_DISPLAY == 300

SLEEP_AFTER_GENERATE == 3600

(* Bounds of the model. *)

\* generate phases a capped behaviour may begin
MaxGen == 2

\* environment faults (failed saves, renderer and viewer failures, kills) per behaviour
MaxFaults == 2

\* directories drawn for the lookup hold at most MaxPresent images ...
MaxPresent == 1

\* ... or lack at most MaxAbsent images of the full ring
MaxAbsent == 1

\* how far outside 0..MAX_IMAGES a counter found in counter.json can lie
MaxStray == 2

\* the histories `allocated` and `rendered` keep one full ring cycle and two more calls
HistCap == MAX_IMAGES + 2

----------------------------------------------------------------------------
(* Paths under image_dir. *)

NoPath == <<>>

DefaultPath == <<"output.png">>

ManualPath == <<"manual", ".png">>

SlotPath(i) == <<"output", i, ".png">>

IsSlotPath(p) == Len(p) = 3 /\ p[1] = "output"

PathExists(fs, p) == \E i \in 1..Len(fs) : fs[i] = p

\* a file is created or overwritten: it becomes the most recently written one
WriteFile(fs, p) == Append(SelectSeq(fs, LAMBDA q : q # p), p)

----------------------------------------------------------------------------
(* The counter record. *)

AbsentRecord == [kind |-> "absent", counter |-> 0]

GarbledRecord == [kind |-> "garbled", counter |-> 0]

IntRecord(c) == [kind |-> "int", counter |-> c]

\* a parsed object with no 'counter' key
NoFieldRecord == [kind |-> "nofield", counter |-> 0]

\* JSON values of the 'counter' key that are not integers
FieldTypes == {"null", "float", "str", "list"}

\* a parsed object whose 'counter' key holds a value of type t that is no integer
NonIntRecord(t) == [kind |-> "nonint", counter |-> [type |-> t]]

\* load_counter(): 0 when the file is absent, when reading or parsing it or
\* data.get raises, or when the key is missing; else the value of the key as it is
LoadCounter(rec) ==
    IF rec.kind = "absent" THEN 0
    ELSE IF rec.kind = "garbled" THEN 0
    ELSE IF rec.kind = "nofield" THEN 0
    ELSE rec.counter

\* the Python type of what load_counter() returns
LoadedType(rec) == IF rec.kind = "nonint" THEN rec.counter.type ELSE "int"

\* load_counter() never raises: what it returns, with its type
LoadCounterResult(rec) == [type |-> LoadedType(rec), value |-> LoadCounter(rec)]

\* no load_counter() call yet
NoLoad == [type |-> "none", value |-> 0]

SaveOutcomes == {"saved", "not_opened", "truncated"}

\* a save that leaves the record as it was and reports nothing
SaveCounter_Keeps(rec, counter, outcome) == rec

\* save_counter(): the record is replaced; a failure before the file is opened
\* leaves the old record, a failure after open(..., 'w') leaves a cut-off file
SaveCounter(rec, counter, outcome) ==
    IF outcome = "saved" THEN IntRecord(counter)
    ELSE IF outcome = "not_opened" THEN rec
    ELSE GarbledRecord

\* the next position without the ring
NextCounter_NoWrap(counter) == counter + 1

\* the next position taken after the remainder, so that MAX_IMAGES - 1 gives 0
NextCounter_ModAfter(counter) == (counter + 1) % MAX_IMAGES

\* next_counter = (counter % MAX_IMAGES) + 1; Python's % takes the sign of the
\* divisor, as % does here
NextCounter(counter) == (counter % MAX_IMAGES) + 1

\* get_next_counter(): the next ring position is returned whether or not it was saved
GetNextCounterValue(rec) == NextCounter(LoadCounter(rec))

----------------------------------------------------------------------------
(* get_latest_image_path() *)

RECURSIVE ScanDown(_, _, _)
\* for i in range(from, stop, -1): the first i whose output<i>.png exists, else 0
ScanDown(fs, from, stop) ==
    IF from <= stop THEN 0
    ELSE IF PathExists(fs, SlotPath(from)) THEN from
    ELSE ScanDown(fs, from - 1, stop)

\* the lookup with its second loop left out
GetLatestImagePath_NoWrap(rec, fs) ==
    LET counter == LoadCounter(rec)
        below == ScanDown(fs, counter - 1, 0)
    IN  IF counter = 0 THEN DefaultPath
        ELSE IF PathExists(fs, SlotPath(counter)) THEN SlotPath(counter)
        ELSE IF below # 0 THEN SlotPath(below)
        ELSE DefaultPath

\* the lookup always giving the shared copy
GetLatestImagePath_SharedCopy(rec, fs) == DefaultPath

GetLatestImagePath(rec, fs) ==
    LET counter == LoadCounter(rec)
        below == ScanDown(fs, counter - 1, 0)
        above == ScanDown(fs, MAX_IMAGES, counter)
    IN  IF counter = 0 THEN DefaultPath
        ELSE IF PathExists(fs, SlotPath(counter)) THEN SlotPath(counter)
        ELSE IF below # 0 THEN SlotPath(below)
        ELSE IF above # 0 THEN SlotPath(above)
        ELSE DefaultPath

----------------------------------------------------------------------------
(* The renderer script, generate_picture_cycle.py, run with --output-number. *)

\* what the script meets: the prompt file loads or not; the sd executable writes
\* its --output file, runs without writing it, or cannot be started; the copy to
\* output.png succeeds or not
RendererEnvs ==
    { e \in [prompts : {"ok", "fail"}, sd : {"wrote", "nothing", "raised"},
             copy : {"ok", "fail"}] :
        /\ e.prompts = "fail" => (e.sd = "wrote" /\ e.copy = "ok")
        /\ e.sd = "raised" => e.copy = "ok" }

EnvFaults(e) ==
    (IF e.prompts = "ok" THEN 0 ELSE 1) + (IF e.sd = "wrote" THEN 0 ELSE 1)
        + (IF e.copy = "ok" THEN 0 ELSE 1)

\* the output file name: cycle mode when --output-number is truthy
OutputFilename(number) == IF number # 0 THEN SlotPath(number) ELSE ManualPath

\* generate_image() of the script: sd is run and its exit status is not looked at
SdRun(fs, path, sd) == IF sd = "wrote" THEN WriteFile(fs, path) ELSE fs

\* main() of the script: its exit code and the files it leaves
RendererMain(number, e, fs) ==
    LET path == OutputFilename(number)
        afterSd == SdRun(fs, path, e.sd)
    IN  IF e.prompts = "fail" THEN [rc |-> 1, files |-> fs]
        ELSE IF e.sd = "raised" THEN [rc |-> 1, files |-> fs]
        ELSE IF ~PathExists(afterSd, path) THEN [rc |-> 1, files |-> afterSd]
        ELSE [rc |-> 0,
              files |-> IF e.copy = "ok" THEN WriteFile(afterSd, DefaultPath)
                        ELSE afterSd]

----------------------------------------------------------------------------
(* generate_image() and display_image() of start_image_cycle.py *)

\* generate_image() after subprocess.run: a non-zero exit raises and gives False,
\* a missing output file gives False
GenerateImageResult(rc, fs, counter) ==
    IF rc # 0 THEN FALSE
    ELSE IF ~PathExists(fs, SlotPath(counter)) THEN FALSE
    ELSE rc = 0

ViewerOutcomes == {"ok", "failed"}

Record(hist, x) == IF Len(hist) < HistCap THEN Append(hist, x) ELSE hist

\* faults are drawn only while the budget lasts, within the first MaxGen generations
CanFault(n) == n = 0 \/ (faults + n <= MaxFaults /\ gens <= MaxGen)

Halted == pc \in {"stopped", "killed"}

----------------------------------------------------------------------------
(* The directory left by k generations in which nothing failed. *)

FreshDir == [counterFile |-> AbsentRecord, files |-> <<>>]

OkEnv == [prompts |-> "ok", sd |-> "wrote", copy |-> "ok"]

GenerateOk(d) ==
    LET counter == GetNextCounterValue(d.counterFile)
    IN  [counterFile |-> SaveCounter(d.counterFile, counter, "saved"),
         files |-> RendererMain(counter, OkEnv, d.files).files]

RECURSIVE RunOk(_, _)
\* k more generations on directory d (the test of the record makes TLC work out
\* each directory before it goes on to the next)
RunOk(d, k) ==
    LET next == GenerateOk(d)
    IN  IF k = 0 THEN d
        ELSE IF next.counterFile.kind # "int" THEN next
        ELSE RunOk(next, k - 1)

DirAfter(k) == RunOk(FreshDir, k)

\* every directory a run without faults leaves: from empty to a ring that wrapped
PriorDirs == { DirAfter(k) : k \in 0..(2 * MAX_IMAGES - 1) }

----------------------------------------------------------------------------
(* main() *)

InitRun ==
    /\ pc = "boot"
    /\ stage = "bootstrap"
    /\ slot = 0
    /\ returncode = -1
    /\ imagePath = NoPath
    /\ viewerArg = NoPath
    /\ viewerExit = "none"
    /\ lastPhase = "none"
    /\ slept = 0
    /\ bootCursor = 0
    /\ gens = 0
    /\ faults = 0
    /\ allocated = <<>>
    /\ rendered = <<>>
    /\ loaded = NoLoad
    /\ lastSave = "none"
    /\ saveFaults = 0

Init ==
    /\ InitRun
    /\ \E d \in PriorDirs :
        /\ counterFile = d.counterFile
        /\ files = d.files

InitFresh ==
    /\ InitRun
    /\ counterFile = FreshDir.counterFile
    /\ files = FreshDir.files

\* main() displaying first whatever the counter is
FirstPhase_AlwaysDisplay(counter) == "display"

\* lines 117-124: generate first when load_counter() == 0, else display first
FirstPhase(counter) == IF counter = 0 THEN "generate" ELSE "display"

\* main(), lines 112-117: the directory is made and the counter is looked at
Boot ==
    /\ pc = "boot"
    /\ bootCursor' = LoadCounter(counterFile)
    /\ pc' = FirstPhase(LoadCounter(counterFile))
    /\ loaded' = LoadCounterResult(counterFile)
    /\ UNCHANGED <<stage, slot, returncode, counterFile, files, imagePath, viewerArg,
                   viewerExit, lastPhase, slept, gens, faults, allocated, rendered,
                   lastSave, saveFaults>>

\* a failed save ending the run
AfterSave_Raises(outcome) == IF outcome = "saved" THEN "render" ELSE "stopped"

\* save_counter() catches its own exceptions and get_next_counter() returns, so
\* generate_image() goes on to run the renderer whatever the outcome
AfterSave(outcome) == "render"

\* generate_image(), line 88: counter = get_next_counter()
GetNextCounter ==
    /\ pc = "generate"
    /\ \E outcome \in SaveOutcomes :
        /\ CanFault(IF outcome = "saved" THEN 0 ELSE 1)
        /\ counterFile' =
              SaveCounter(counterFile, GetNextCounterValue(counterFile), outcome)
        /\ faults' = faults + (IF outcome = "saved" THEN 0 ELSE 1)
        /\ saveFaults' = saveFaults + (IF outcome = "saved" THEN 0 ELSE 1)
        /\ lastSave' = outcome
        /\ pc' = AfterSave(outcome)
    /\ loaded' = LoadCounterResult(counterFile)
    /\ slot' = GetNextCounterValue(counterFile)
    /\ allocated' = Record(allocated, GetNextCounterValue(counterFile))
    /\ gens' = IF gens <= MaxGen THEN gens + 1 ELSE gens
    /\ UNCHANGED <<stage, returncode, files, imagePath, viewerArg, viewerExit,
                   lastPhase, slept, bootCursor, rendered>>

\* main() going on after a failed generation
AfterGenerate_IgnoresFailure(ok) ==
    IF stage = "bootstrap" THEN "display" ELSE "sleep_after_generate"

\* main() displaying right after every generation
AfterGenerate_NoSleep(ok) == IF ~ok THEN "stopped" ELSE "display"

\* main() generating again after a generation
AfterGenerate_Again(ok) == IF ok THEN "generate" ELSE "stopped"

\* where main() goes when generate_image() returns ok: lines 119-124, 132-136
AfterGenerate(ok) ==
    IF ~ok THEN "stopped"
    ELSE IF stage = "bootstrap" THEN "display"
    ELSE "sleep_after_generate"

\* generate_image(), lines 92-107, and what main() does with its result
RunRenderer ==
    /\ pc = "render"
    /\ \E e \in RendererEnvs :
        \E r \in {RendererMain(slot, e, files)} :
            /\ CanFault(EnvFaults(e))
            /\ faults' = faults + EnvFaults(e)
            /\ files' = r.files
            /\ returncode' = r.rc
            /\ rendered' = IF e.prompts = "ok" /\ e.sd = "wrote"
                           THEN Record(rendered, slot) ELSE rendered
            /\ pc' = AfterGenerate(GenerateImageResult(r.rc, r.files, slot))
    /\ lastPhase' = "generate"
    /\ slept' = 0
    /\ UNCHANGED <<stage, slot, counterFile, imagePath, viewerArg, viewerExit,
                   bootCursor, gens, allocated, loaded, lastSave, saveFaults>>

\* main() leaving the loop after every display
AfterDisplay_EndsLoop(ok) == "stopped"

\* main() going on after a failed display
AfterDisplay_IgnoresFailure(ok) == "sleep_after_display"

\* where main() goes when display_image() returns ok: lines 124-128, 139-143
AfterDisplay(ok) == IF ok THEN "sleep_after_display" ELSE "stopped"

\* display_image() and what main() does with its result
DisplayImage ==
    /\ pc = "display"
    /\ \E image_path \in {GetLatestImagePath(counterFile, files)} :
           /\ imagePath' = image_path
           /\ IF ~PathExists(files, image_path)
              THEN /\ viewerArg' = NoPath
                   /\ viewerExit' = "none"
                   /\ pc' = AfterDisplay(FALSE)
                   /\ faults' = faults
              ELSE \E viewer \in ViewerOutcomes :
                   /\ CanFault(IF viewer = "ok" THEN 0 ELSE 1)
                   /\ faults' = faults + (IF viewer = "ok" THEN 0 ELSE 1)
                   /\ viewerArg' = image_path
                   /\ viewerExit' = viewer
                   /\ pc' = AfterDisplay(viewer = "ok")
    /\ lastPhase' = "display"
    /\ slept' = 0
    /\ loaded' = LoadCounterResult(counterFile)
    /\ UNCHANGED <<stage, slot, returncode, counterFile, files, bootCursor, gens,
                   allocated, rendered, lastSave, saveFaults>>

\* time.sleep(SLEEP_AFTER_DISPLAY), lines 128 and 143; the loop starts or goes round
SleepAfterDisplay ==
    /\ pc = "sleep_after_display"
    /\ slept' = slept + SLEEP_AFTER_DISPLAY
    /\ stage' = "loop"
    /\ pc' = "generate"
    /\ UNCHANGED <<slot, returncode, counterFile, files, imagePath, viewerArg,
                   viewerExit, lastPhase, bootCursor, gens, faults, allocated,
                   rendered, loaded, lastSave, saveFaults>>

\* time.sleep(SLEEP_AFTER_GENERATE), line 136
SleepAfterGenerate ==
    /\ pc = "sleep_after_generate"
    /\ slept' = slept + SLEEP_AFTER_GENERATE
    /\ pc' = "display"
    /\ UNCHANGED <<stage, slot, returncode, counterFile, files, imagePath, viewerArg,
                   viewerExit, lastPhase, bootCursor, gens, faults, allocated,
                   rendered, loaded, lastSave, saveFaults>>

\* the process is terminated from outside
Kill ==
    /\ ~Halted
    /\ CanFault(1)
    /\ faults' = faults + 1
    /\ pc' = "killed"
    /\ UNCHANGED <<stage, slot, returncode, counterFile, files, imagePath, viewerArg,
                   viewerExit, lastPhase, slept, bootCursor, gens, allocated,
                   rendered, loaded, lastSave, saveFaults>>

\* a fresh process start on the directory as it was left
Restart ==
    /\ Halted
    /\ pc' = "boot"
    /\ stage' = "bootstrap"
    /\ slot' = 0
    /\ returncode' = -1
    /\ imagePath' = NoPath
    /\ viewerArg' = NoPath
    /\ viewerExit' = "none"
    /\ lastPhase' = "none"
    /\ slept' = 0
    /\ bootCursor' = 0
    /\ loaded' = NoLoad
    /\ lastSave' = "none"
    /\ UNCHANGED <<counterFile, files, gens, faults, allocated, rendered, saveFaults>>

\* a step of the running process
Step ==
    \/ Boot
    \/ GetNextCounter
    \/ RunRenderer
    \/ DisplayImage
    \/ SleepAfterDisplay
    \/ SleepAfterGenerate

Next ==
    \/ Boot
    \/ (gens < MaxGen /\ GetNextCounter)
    \/ RunRenderer
    \/ DisplayImage
    \/ SleepAfterDisplay
    \/ SleepAfterGenerate
    \/ Kill
    \/ Restart

\* runs of at most MaxGen generations on a directory left by earlier runs
Spec == Init /\ [][Next]_vars

NextFair == Step \/ Kill \/ Restart

\* runs of any length on an empty directory; a running process always goes on
FairSpec == InitFresh /\ [][NextFair]_vars /\ WF_vars(Step)

\* counters a counter.json written by another hand can hold
StoreCounters ==
    {AbsentRecord, GarbledRecord}
        \cup { IntRecord(c) : c \in (0 - MaxStray)..(MAX_IMAGES + MaxStray) }

\* an empty directory, a ring one short of full and a full ring
StoreDirs == {DirAfter(0), DirAfter(MAX_IMAGES - 1), DirAfter(MAX_IMAGES)}

InitStore ==
    /\ InitRun
    /\ counterFile \in StoreCounters
    /\ \E d \in StoreDirs : files = d.files

\* runs on a directory whose counter.json holds any integer near the ring or none
StoreSpec == InitStore /\ [][Next]_vars

----------------------------------------------------------------------------
(* load_counter() on its own, on every kind of counter file. *)

\* what image_counter.json can hold: nothing, text that does not load, an object
\* without the key, an integer near the ring, a value that is no integer
LoadRecords ==
    StoreCounters \cup {NoFieldRecord} \cup { NonIntRecord(t) : t \in FieldTypes }

InitLoad ==
    /\ InitRun
    /\ counterFile \in LoadRecords
    /\ \E d \in StoreDirs : files = d.files

\* one call of load_counter()
LoadCounterCall ==
    /\ pc = "boot"
    /\ loaded' = LoadCounterResult(counterFile)
    /\ pc' = "loaded"
    /\ UNCHANGED <<stage, slot, returncode, counterFile, files, imagePath, viewerArg,
                   viewerExit, lastPhase, slept, bootCursor, gens, faults, allocated,
                   rendered, lastSave, saveFaults>>

NextLoad == LoadCounterCall

LoadSpec == InitLoad /\ [][NextLoad]_vars

----------------------------------------------------------------------------
(* The lookup on its own: display_image() on any counter 0..MAX_IMAGES and   *)
(* any set of image files within the bounds, whether or not they agree.      *)

Slots == 1..MAX_IMAGES

RECURSIVE SlotSetsUpTo(_)
SlotSetsUpTo(n) ==
    IF n = 0 THEN {{}}
    ELSE LET smaller == SlotSetsUpTo(n - 1)
         IN  smaller \cup { E \cup {s} : E \in smaller, s \in Slots }

SlotSets == SlotSetsUpTo(MaxPresent) \cup { Slots \ H : H \in SlotSetsUpTo(MaxAbsent) }

AllSlotFiles == [i \in Slots |-> SlotPath(i)]

FilesOf(E, withDefault) ==
    SelectSeq(AllSlotFiles, LAMBDA p : p[2] \in E)
        \o (IF withDefault THEN <<DefaultPath>> ELSE <<>>)

CounterRecords == {AbsentRecord} \cup { IntRecord(c) : c \in 0..MAX_IMAGES }

InitLocate ==
    /\ pc = "display"
    /\ stage = "loop"
    /\ slot = 0
    /\ returncode = -1
    /\ imagePath = NoPath
    /\ viewerArg = NoPath
    /\ viewerExit = "none"
    /\ lastPhase = "none"
    /\ slept = 0
    /\ bootCursor = 0
    /\ gens = 0
    /\ faults = 0
    /\ allocated = <<>>
    /\ rendered = <<>>
    /\ loaded = NoLoad
    /\ lastSave = "none"
    /\ saveFaults = 0
    /\ counterFile \in CounterRecords
    /\ \E E \in SlotSets, withDefault \in BOOLEAN : files = FilesOf(E, withDefault)

NextLocate == DisplayImage

LocateSpec == InitLocate /\ [][NextLocate]_vars

----------------------------------------------------------------------------
(* Claims *)

ExistingSlots == { s \in Slots : PathExists(files, SlotPath(s)) }

\* how many places slot s lies behind the cursor on the ring: 0 for the
\* cursor's own slot, 1 for the slot allocated before it, and so on
StepsBehind(cursor, s) == (cursor - s) % MAX_IMAGES

\* C1: for every cursor c in 0..N and every set E of existing slot files,
\* get_latest_image_path returns the default path when c = 0 or E is empty, and
\* otherwise the path of the first slot of c, c-1, ..., 1, N, ..., c+1 that is in E
C1_FindLatestOrder ==
    lastPhase = "display" =>
        LET c == LoadCounter(counterFile)
            E == ExistingSlots
        IN  /\ c \in 0..MAX_IMAGES
            /\ (c = 0 \/ E = {}) => imagePath = DefaultPath
            /\ (c # 0 /\ E # {}) =>
                  \E s \in E :
                     /\ imagePath = SlotPath(s)
                     /\ \A t \in E : StepsBehind(c, s) <= StepsBehind(c, t)
            /\ (c # 0 /\ c \in E) => imagePath = SlotPath(c)
            /\ (c > 1 /\ c \notin E /\ c - 1 \in E) => imagePath = SlotPath(c - 1)
            /\ (c = 1 /\ E = {MAX_IMAGES}) => imagePath = SlotPath(MAX_IMAGES)

\* C1 witness: the cursor is 1, only slot N's file exists, and the lookup has
\* gone round the ring to it
C1_Witness ==
    /\ lastPhase = "display"
    /\ LoadCounter(counterFile) = 1
    /\ ExistingSlots = {MAX_IMAGES}
    /\ imagePath = SlotPath(MAX_IMAGES)

SlotFiles == SelectSeq(files, IsSlotPath)

\* C2: in every state reachable through generations, failed generations, failed
\* saves and restarts, a display that resolves to a slot's file resolves to the
\* slot file that was written last among those on disk
C2_ShowsLastWritten ==
    (lastPhase = "display" /\ IsSlotPath(imagePath) /\ SlotFiles # <<>>) =>
        imagePath = SlotFiles[Len(SlotFiles)]

\* the generate phase that just ended failed: the renderer exited non-zero, or
\* exited zero and left no file at the slot's path
GenerateFailed ==
    /\ lastPhase = "generate"
    /\ (returncode # 0 \/ ~PathExists(files, SlotPath(slot)))

\* the display phase that just ended failed: the resolved path does not exist,
\* or the viewer was run and failed
DisplayFailed ==
    /\ lastPhase = "display"
    /\ (~PathExists(files, imagePath) \/ viewerExit = "failed")

\* a stopped run does nothing more: the next step, if any, is a new process
StoppedIsTerminal ==
    pc = "stopped" =>
        /\ pc' \in {"stopped", "boot"}
        /\ pc' = "stopped" =>
              UNCHANGED <<counterFile, files, viewerArg, viewerExit, lastPhase, gens>>

C4_DisplayFailureStops ==
    [][/\ (pc = "display" /\ lastPhase' = "display" /\ pc' # "killed") =>
            /\ ~PathExists(files, imagePath') =>
                  (pc' = "stopped" /\ viewerArg' = NoPath /\ viewerExit' = "none")
            /\ viewerExit' = "failed" => pc' = "stopped"
            /\ viewerExit' # "none" => viewerArg' = imagePath'
       /\ DisplayFailed => StoppedIsTerminal]_vars

\* C4 witness: the resolved path was missing, the viewer was not run, the run stopped
C4_Witness ==
    /\ pc = "stopped"
    /\ lastPhase = "display"
    /\ ~PathExists(files, imagePath)
    /\ viewerArg = NoPath

\* C5: when the counter loaded at start-up is 0 the first phase is a generation
\* and the first display comes only after it succeeded; otherwise the first phase
\* is a display
C5_Bootstrap ==
    /\ (pc \notin {"boot", "stopped", "killed"} /\ lastPhase = "none") =>
          /\ bootCursor = 0 => pc \in {"generate", "render"}
          /\ bootCursor # 0 => pc = "display"
    /\ (bootCursor = 0 /\ pc # "boot" /\ lastPhase = "display"
           /\ stage = "bootstrap") =>
          (returncode = 0 /\ slot # 0)
    /\ (bootCursor = 0 /\ pc = "display" /\ stage = "bootstrap") =>
          (lastPhase = "generate" /\ ~GenerateFailed)
    /\ (bootCursor # 0 /\ stage = "bootstrap" /\ pc # "boot") => returncode = -1

\* C5 witness: the counter was 0, the bootstrap generation succeeded and the
\* first display is due
C5_Witness ==
    /\ pc = "display"
    /\ stage = "bootstrap"
    /\ bootCursor = 0
    /\ lastPhase = "generate"
    /\ PathExists(files, SlotPath(slot))

\* C6 as claimed: a display after a generation comes after a sleep of
\* SLEEP_AFTER_GENERATE, a generation after a display after one of
\* SLEEP_AFTER_DISPLAY, with no exception
C6_SleepBetweenAllPhases ==
    /\ (pc = "display" /\ lastPhase = "generate") => slept = SLEEP_AFTER_GENERATE
    /\ (pc = "generate" /\ lastPhase = "display") => slept = SLEEP_AFTER_DISPLAY

\* C6 as amended: the same in the loop; the bootstrap generation is followed by
\* the first display with no sleep between them
C6_SleepBetweenLoopPhases ==
    /\ (pc = "display" /\ lastPhase = "generate" /\ stage = "loop") =>
          slept = SLEEP_AFTER_GENERATE
    /\ (pc = "display" /\ lastPhase = "generate" /\ stage = "bootstrap") =>
          slept = 0
    /\ (pc = "generate" /\ lastPhase = "display") => slept = SLEEP_AFTER_DISPLAY
    /\ (pc = "display" /\ lastPhase = "display") => FALSE
    /\ (pc \in {"generate", "render"} /\ lastPhase = "generate") => FALSE

\* C6 witness: a display of the loop is due, one sleep of 3600 s after the
\* generation before it
C6_Witness ==
    /\ pc = "display"
    /\ stage = "loop"
    /\ lastPhase = "generate"
    /\ slept = SLEEP_AFTER_GENERATE

C8_SlotsBounded ==
    /\ pc = "render" =>
          /\ slot \in Slots
          /\ OutputFilename(slot) = SlotPath(slot)
    /\ \A i \in 1..Len(files) :
          \/ files[i] = DefaultPath
          \/ (IsSlotPath(files[i]) /\ files[i][2] \in Slots)
    /\ Len(SlotFiles) <= MAX_IMAGES

\* C8 witness: the counter file held an integer outside 0..MAX_IMAGES, the ring
\* was full, and the renderer has written the slot it was asked for
C8_Witness ==
    /\ bootCursor \notin 0..MAX_IMAGES
    /\ lastPhase = "generate"
    /\ returncode = 0
    /\ Len(SlotFiles) = MAX_IMAGES
    /\ SlotFiles[MAX_IMAGES] = SlotPath(slot)

\* the slot the i-th generation on an empty directory is due: 1, 2, ..., N, 1, ...
RingOrder(i) == IF i <= MAX_IMAGES THEN i ELSE i - MAX_IMAGES

\* C9: on an empty directory, with every save and every renderer run succeeding,
\* the calls of get_next_counter return 1, 2, ..., MAX_IMAGES, 1 in that order and
\* the renderer writes those slots in that order; after MAX_IMAGES + 1
\* generations the saved counter is 1 and output1.png was written exactly twice
C9_RingWraps ==
    faults = 0 =>
        /\ \A i \in 1..Len(allocated) : allocated[i] = RingOrder(i)
        /\ \A i \in 1..Len(rendered) : rendered[i] = RingOrder(i)
        /\ (Len(allocated) = MAX_IMAGES + 1 /\ Len(rendered) = MAX_IMAGES + 1) =>
              /\ counterFile = IntRecord(1)
              /\ Cardinality({ i \in 1..Len(rendered) : rendered[i] = 1 }) = 2
              /\ Len(SlotFiles) = MAX_IMAGES
              /\ SlotFiles[MAX_IMAGES] = SlotPath(1)
              /\ SlotFiles[1] = SlotPath(2)

\* C9 witness: MAX_IMAGES + 1 generations without a fault have been made
C9_Witness ==
    /\ faults = 0
    /\ Len(allocated) = MAX_IMAGES + 1
    /\ Len(rendered) = MAX_IMAGES + 1
    /\ LoadCounter(counterFile) = 1

\* C10: whenever get_next_counter runs, the counter c it loads is in
\* 0..MAX_IMAGES and the slot it returns is (c mod MAX_IMAGES) + 1, which is c + 1
\* below MAX_IMAGES and 1 at MAX_IMAGES, and lies in 1..MAX_IMAGES
C10_NextSlot ==
    [][(pc = "generate" /\ pc' = "render") =>
        LET c == LoadCounter(counterFile)
        IN  /\ c \in 0..MAX_IMAGES
            /\ slot' \in 1..MAX_IMAGES
            /\ slot' = (c % MAX_IMAGES) + 1
            /\ slot' = IF c = MAX_IMAGES THEN 1 ELSE c + 1
            /\ c = 0 => slot' = 1]_vars

\* C10 witness: get_next_counter has returned 1 on a full ring whose newest
\* image is output<MAX_IMAGES>.png, that is from the counter MAX_IMAGES
C10_Witness ==
    /\ pc = "render"
    /\ slot = 1
    /\ counterFile = IntRecord(1)
    /\ Len(SlotFiles) = MAX_IMAGES
    /\ SlotFiles[MAX_IMAGES] = SlotPath(MAX_IMAGES)

\* C11: load_counter() returns the integer 0 whenever the counter file is absent,
\* does not load, or loads but holds no integer under the key 'counter'
C11_LoadFailsSoft ==
    (pc = "loaded" /\ counterFile.kind # "int") =>
        /\ loaded.type = "int"
        /\ loaded.value = 0

\* C12: every counter value the program works with is in 0..MAX_IMAGES: what
\* load_counter() returns is in 0..MAX_IMAGES even when the file holds an integer
\* outside it, and every value save_counter() has written is in 1..MAX_IMAGES
C12_CursorInRange ==
    /\ loaded.value \in 0..MAX_IMAGES
    /\ lastSave = "saved" =>
          /\ counterFile.kind = "int"
          /\ counterFile.counter \in 1..MAX_IMAGES

C14_DirectHit ==
    (faults = 0 /\ lastPhase = "display" /\ pc # "render") =>
        /\ counterFile = IntRecord(slot)
        /\ loaded = [type |-> "int", value |-> slot]
        /\ PathExists(files, SlotPath(slot))
        /\ SlotFiles[Len(SlotFiles)] = SlotPath(slot)
        /\ imagePath = SlotPath(slot)
        /\ viewerArg = SlotPath(slot)
        /\ viewerExit = "ok"

\* C14 witness: the ring has wrapped without a fault and the display after the
\* second write of output1.png has been made
C14_Witness ==
    /\ faults = 0
    /\ lastPhase = "display"
    /\ pc = "sleep_after_display"
    /\ Len(rendered) = MAX_IMAGES + 1
    /\ viewerArg = SlotPath(1)

\* C15: a process that starts on a directory whose counter is already set (a
\* process before it stopped after get_next_counter() saved the counter) finds
\* an existing file at its first display and goes on: unless the viewer itself
\* fails, the first display does not stop the run
C15_RestartShowsImage ==
    [][(pc = "display" /\ stage = "bootstrap" /\ bootCursor # 0
            /\ lastPhase = "none" /\ pc' # "killed") =>
          /\ PathExists(files, imagePath')
          /\ (pc' = "stopped" => viewerExit' = "failed")]_vars

\* C16: in a generate phase the counter is saved before the renderer is run:
\* the step that allocates the slot writes the counter file and no image, and
\* while the renderer is due or running for slot s after a save that succeeded,
\* the counter file holds s and not the value before
C16_SaveBeforeRender ==
    [][/\ (pc = "generate" /\ pc' = "render") =>
            /\ files' = files
            /\ rendered' = rendered
            /\ returncode' = returncode
            /\ lastSave' = "saved" =>
                  (counterFile' = IntRecord(slot') /\ counterFile' # counterFile)
       /\ (pc = "render" /\ lastSave = "saved") =>
            /\ counterFile = IntRecord(slot)
            /\ counterFile' = counterFile]_vars

\* C16 witness: the counter holds the new slot and the renderer, which has not
\* yet written that slot's file, is about to run
C16_Witness ==
    /\ pc = "render"
    /\ lastSave = "saved"
    /\ counterFile = IntRecord(slot)
    /\ slot = MAX_IMAGES
    /\ ~PathExists(files, SlotPath(slot))

\* C17 as claimed, for the first generate phase of a process (the renderer has
\* not yet run in it) that may follow a failed generation and a restart: once
\* every slot has a file and no save has failed, the slot about to be written
\* holds the oldest numbered image
C17_TargetsOldest ==
    (pc = "render" /\ returncode = -1 /\ Len(SlotFiles) = MAX_IMAGES
        /\ saveFaults = 0) =>
        SlotFiles[1] = SlotPath(slot)

\* C17 as amended: the slot a generate phase is about to write is the one after
\* the loaded counter in ring order, in every run; once every slot has a file
\* it holds the oldest numbered image in runs without a fault
C17_TargetsNextPosition ==
    pc = "render" =>
        /\ slot = IF loaded.value = MAX_IMAGES THEN 1 ELSE loaded.value + 1
        /\ (Len(SlotFiles) = MAX_IMAGES /\ faults = 0) =>
              /\ SlotFiles[1] = SlotPath(slot)
              /\ SlotFiles[MAX_IMAGES] = SlotPath(loaded.value)

\* C17 witness: on a full ring with no fault the counter was MAX_IMAGES and the
\* generate phase is about to overwrite output1.png, the oldest image
C17_Witness ==
    /\ pc = "render"
    /\ faults = 0
    /\ Len(SlotFiles) = MAX_IMAGES
    /\ loaded.value = MAX_IMAGES
    /\ slot = 1
    /\ SlotFiles[1] = SlotPath(1)

Generating == pc \in {"generate", "render"}

Displaying == pc = "display"

Sleeping == pc \in {"sleep_after_display", "sleep_after_generate"}

\* C19: main() is at one place at a time, so at most one of generating,
\* displaying and sleeping is going on, and within a run the phases alternate:
\* a generate phase begins only at the start or after a display phase, a
\* display phase only at the start or after a generate phase
C19_PhasesAlternate ==
    [][/\ pc \in {"boot", "generate", "render", "display", "sleep_after_display",
                  "sleep_after_generate", "stopped", "killed"}
       /\ ~(Generating /\ Displaying) /\ ~(Generating /\ Sleeping)
       /\ ~(Displaying /\ Sleeping)
       /\ (pc = "generate" /\ pc' = "render") => lastPhase \in {"none", "display"}
       /\ (pc = "render" /\ lastPhase' = "generate") =>
            lastPhase \in {"none", "display"}
       /\ (pc = "display" /\ lastPhase' = "display" /\ pc' # "killed") =>
            lastPhase = (IF bootCursor # 0 /\ stage = "bootstrap"
                         THEN "none" ELSE "generate")]_vars

\* C19 witness: in the loop, after a generate phase and a display phase, the
\* next generate phase is under way
C19_Witness ==
    /\ stage = "loop"
    /\ pc = "render"
    /\ lastPhase = "display"
    /\ returncode = 0
    /\ viewerExit = "ok"

\* C20: a generate phase counts as successful (main() goes on) only if the
\* renderer wrote the allocated slot's file in that phase; a file left at the
\* slot by an earlier ring cycle does not make a failed rendering a success
C20_SuccessMeansWritten ==
    [][(pc = "render" /\ lastPhase' = "generate" /\ pc' \notin {"stopped", "killed"}
            /\ Len(rendered) < HistCap) =>
          rendered' = Append(rendered, slot)]_vars

====
